---- MODULE Spec2Model ----
(***************************************************************************)
(* State-machine model of the skyfox64 relay (server.js) and of the        *)
(* downstream connection manager of the viewer (BlueSkyVis.tsx).           *)
(*                                                                         *)
(* Time is counted in milliseconds.  A pending timer is a record whose     *)
(* field remaining counts down to 0 and whose field age counts the time    *)
(* since it was set; time cannot pass a timer that is due, so a timer      *)
(* callback runs exactly when its delay has elapsed.                       *)
(***************************************************************************)
EXTENDS Integers, Sequences, FiniteSets, Bags

VARIABLES
    jetstreamConnection, \* server.js: readyState of the instance the variable holds
    jsDetached,          \* readyStates of the upstream instances no longer referenced
    jsTimers,            \* pending setTimeout(connectToJetstream, 5000) timers
    connectedClients,    \* server.js: the Set of downstream handles
    clientState,         \* readyState of every downstream handle, as the relay sees it
    clientErrored,       \* handles whose 'error' event has been dispatched, until their close
    wire,                \* per handle: the frames written to it by client.send
    lastCast,            \* history: the handles the last broadcast skipped or found removed
    httpResponse,        \* the answer to the last HTTP request
    totalClients,        \* the size the last "Total clients:" log line reported, "none" if none
    inbound              \* history: the last text frame a downstream handle delivered, "none" if none

relayVars == <<jetstreamConnection, jsDetached, jsTimers, connectedClients,
               clientState, clientErrored, wire, lastCast, httpResponse,
               totalClients, inbound>>

\* the downstream connection manager of one viewer (BlueSkyVis.tsx)
VARIABLES
    ws,                       \* readyState of the socket the variable ws refers to, "NULL" if none
    wsDetached,               \* readyStates of the sockets ws no longer refers to, until they close
    reconnectTimers,          \* pending setTimeout timers of scheduleReconnect
    heartbeatIntervals,       \* active setInterval timers of the heartbeat
    connectionCheckIntervals, \* active setInterval timers of the staleness check
    reconnectAttempts,
    shouldReconnect,
    lastMessageAge,           \* Date.now() - lastMessageTime, counted up to StaleAge
    mounted,                  \* history: the effect cleanup has not run
    urlOk                     \* new WebSocket(websocketUrl) does not throw

clientVars == <<ws, wsDetached, reconnectTimers, heartbeatIntervals,
                connectionCheckIntervals, reconnectAttempts, shouldReconnect,
                lastMessageAge, mounted, urlOk>>

\* the messages of the viewer (BlueSkyVis.tsx)
VARIABLES
    messageObjects,           \* messageObjectsRef.current: text, special, blueSkyUrl of each
    handlerError,             \* the exception the last onmessage call let escape, or "none"
    messageIds,               \* the identity of each object of messageObjectsRef.current
    created,                  \* history: the number of message objects created so far
    growingMessages,          \* growingMessagesRef.current: identity, ms since startTime
    removals,                 \* history, per message: times it was spliced out of messageObjectsRef
    textureReleases           \* history, per message: times its texture was released to the pool

decoderVars == <<messageObjects, handlerError, messageIds, created, growingMessages,
                 removals, textureReleases>>

\* the game of the viewer (BlueSkyVis.tsx, Arwing.ts, ArwingControls.ts)
VARIABLES
    health,                   \* Arwing.health
    collectedUrls,            \* Arwing.collectedUrls
    isArwingDestroyed,        \* React state
    pendingBlueskyUrl,        \* React state
    destructionTimers,        \* remaining ms of the pending timer of the destruction effect
    navigatedTo,              \* the URL given to window.open(url, '_self'), Null before
    released,                 \* per key: aReleased, dReleased
    lastPress,                \* per key: now - lastAPress (lastDPress), NoPress when it is 0
    barrelRoll,               \* per key: controls.barrelRollLeft, controls.barrelRollRight
    flagTimers,               \* remaining ms of the pending flag-reset timers of handleKeyUp
    isBarrelRolling,
    barrelRollTime,           \* ms since the roll started: barrelRollTime at the next frame
    barrelRollDirection,
    rollAngle,                \* mesh.rotation.z as handleBarrelRoll leaves it, in thousandths of a turn
    connectingMessage,        \* connectingMessageRef.current: its material's alpha in percent, or Null
    sinceCreated,             \* Date.now() - createdAt of the placeholder, while it exists
    placeholderReleases       \* history: times the placeholder's texture went back to the pool

gameVars == <<health, collectedUrls, isArwingDestroyed, pendingBlueskyUrl,
              destructionTimers, navigatedTo>>

controlVars == <<released, lastPress, barrelRoll, flagTimers, isBarrelRolling,
                 barrelRollTime, barrelRollDirection, rollAngle>>

placeholderVars == <<connectingMessage, sinceCreated, placeholderReleases>>

sceneVars == <<gameVars, controlVars, placeholderVars>>

vars == <<relayVars, clientVars, decoderVars, sceneVars>>

(***************************************************************************)
(* Bounds of the model.                                                    *)
(***************************************************************************)
MaxDetached == 1     \* upstream instances alive besides the referenced one
NumHandles == 2      \* downstream handles that connect during a run
MaxFrames == 3       \* frames written to downstream handles during a run
MaxJsTimers == 2     \* pending upstream reconnect timers

Handles == 1..NumHandles

(***************************************************************************)
(* Program constants.                                                      *)
(***************************************************************************)
JetstreamReconnectDelay == 5000

\* The frames Jetstream sends on the subscribed URL are JSON text frames,
\* i.e. valid UTF-8: "a" and the two-byte sequence of U+00E9.
Payloads == {<<97>>, <<195, 169>>}

(***************************************************************************)
(* data.toString() decodes the received Buffer as UTF-8 into a string      *)
(* (a sequence of code points); client.send(string) writes the string's    *)
(* UTF-8 encoding as a text frame.                                         *)
(***************************************************************************)
RECURSIVE Latin1Decode(_)
Latin1Decode(bytes) ==
    IF bytes = <<>> THEN <<>> ELSE <<Head(bytes)>> \o Latin1Decode(Tail(bytes))

RECURSIVE BufferToString(_)
BufferToString(bytes) ==
    IF bytes = <<>> THEN <<>>
    ELSE LET b == Head(bytes) IN
         IF b < 128 THEN <<b>> \o BufferToString(Tail(bytes))
         ELSE IF b \in 194..223 /\ Len(bytes) >= 2 /\ bytes[2] \in 128..191
              THEN <<(b - 192) * 64 + (bytes[2] - 128)>>
                       \o BufferToString(Tail(Tail(bytes)))
              ELSE <<65533>> \o BufferToString(Tail(bytes))

RECURSIVE StringToFrame(_)
StringToFrame(str) ==
    IF str = <<>> THEN <<>>
    ELSE LET c == Head(str) IN
         (IF c < 128 THEN <<c>>
          ELSE IF c < 2048 THEN <<192 + (c \div 64), 128 + (c % 64)>>
          ELSE <<224 + (c \div 4096), 128 + ((c \div 64) % 64), 128 + (c % 64)>>)
         \o StringToFrame(Tail(str))

(***************************************************************************)
(* Express routing: the routes in registration order.  A request is        *)
(* answered by the first route whose path pattern matches; neither handler *)
(* calls next().  express.static finds no file for the modelled paths.     *)
(***************************************************************************)
Paths == {"/", "/health"}

Routes == << [pattern |-> "*", handler |-> "index"],
             [pattern |-> "/health", handler |-> "health"] >>

RouteMatches(pattern, path) == pattern = "*" \/ pattern = path

HealthJson ==
    [status |-> "ok",
     clients |-> Cardinality(connectedClients),
     jetstream |-> (jetstreamConnection = "OPEN")]

IndexHtml == [file |-> "dist/index.html"]

Respond(handler) == IF handler = "health" THEN HealthJson ELSE IndexHtml

Dispatch(path) ==
    LET hits == {k \in 1..Len(Routes) : RouteMatches(Routes[k].pattern, path)}
    IN  IF hits = {} THEN [status |-> 404]
        ELSE Respond(Routes[CHOOSE k \in hits : \A j \in hits : k <= j].handler)

HttpGet(path) ==
    /\ httpResponse' = [path |-> path, body |-> Dispatch(path)]
    /\ httpResponse' # httpResponse
    /\ UNCHANGED <<jetstreamConnection, jsDetached, jsTimers, connectedClients,
                   clientState, clientErrored, wire, lastCast, totalClients, inbound, clientVars,
                   decoderVars, sceneVars>>

(***************************************************************************)
(* Upstream Connector.  jetstreamConnection is the readyState of the       *)
(* instance the variable refers to.  An instance the variable no longer    *)
(* refers to keeps its handlers until its close event; jsDetached holds    *)
(* the readyStates of those instances.  Instance 0 is the referenced one,  *)
(* instance k > 0 is jsDetached[k].                                        *)
(***************************************************************************)
UpInstances == 0..MaxDetached

UpExists(i) == i = 0 \/ i \in 1..Len(jsDetached)

UpReadyState(i) == IF i = 0 THEN jetstreamConnection ELSE jsDetached[i]

Live(state) == state \in {"CONNECTING", "OPEN", "CLOSING"}

RemoveAt(seq, k) ==
    [j \in 1..(Len(seq) - 1) |-> IF j < k THEN seq[j] ELSE seq[j + 1]]

\* the transport moves instance i to readyState state
SetUpState(i, state) ==
    IF i = 0
    THEN /\ jetstreamConnection' = state
         /\ UNCHANGED jsDetached
    ELSE /\ UNCHANGED jetstreamConnection
         /\ jsDetached' = IF state = "CLOSED" THEN RemoveAt(jsDetached, i)
                          ELSE [jsDetached EXCEPT ![i] = state]

\* connectToJetstream(): jetstreamConnection = new WebSocket(JETSTREAM_URL)
connectToJetstream ==
    /\ jetstreamConnection' = "CONNECTING"
    /\ IF Live(jetstreamConnection)
       THEN /\ Len(jsDetached) < MaxDetached
            /\ jsDetached' = Append(jsDetached, jetstreamConnection)
       ELSE UNCHANGED jsDetached

\* the callback of setTimeout(connectToJetstream, 5000)
JsTimerFire(k) ==
    /\ k \in 1..Len(jsTimers)
    /\ jsTimers[k].remaining = 0
    /\ jsTimers' = RemoveAt(jsTimers, k)
    /\ connectToJetstream
    /\ UNCHANGED <<connectedClients, clientState, clientErrored, wire, lastCast,
                   httpResponse, totalClients, inbound, clientVars,
                   decoderVars, sceneVars>>

\* jetstreamConnection.on('open')
JsOpen(i) ==
    /\ UpExists(i)
    /\ UpReadyState(i) = "CONNECTING"
    /\ SetUpState(i, "OPEN")
    /\ UNCHANGED <<jsTimers, connectedClients, clientState,
                   clientErrored, wire, lastCast, httpResponse, totalClients, inbound, clientVars,
                   decoderVars, sceneVars>>

\* the recipients of a broadcast
RecipientsEverConnected == {c \in Handles : clientState[c] # "NONE"}

RecipientsAll == connectedClients

Recipients == {c \in connectedClients : clientState[c] = "OPEN"}

RECURSIVE SumLen(_, _)
SumLen(f, S) ==
    IF S = {} THEN 0
    ELSE LET c == CHOOSE x \in S : TRUE IN Len(f[c]) + SumLen(f, S \ {c})

FramesWritten == SumLen(wire, Handles)

\* jetstreamConnection.on('message'): forward to all connected clients
JsMessage(i, data) ==
    /\ UpExists(i)
    /\ UpReadyState(i) = "OPEN"
    /\ FramesWritten + Cardinality(Recipients) <= MaxFrames
    /\ wire' = [c \in Handles |->
                   IF c \in Recipients
                   THEN Append(wire[c], StringToFrame(BufferToString(data)))
                   ELSE wire[c]]
    /\ lastCast' = [skipped |-> {c \in connectedClients : clientState[c] # "OPEN"},
                    gone |-> {c \in Handles : clientState[c] # "NONE"
                                              /\ c \notin connectedClients}]
    /\ UNCHANGED <<jetstreamConnection, jsDetached, jsTimers, connectedClients,
                   clientState, clientErrored, httpResponse, totalClients, inbound, clientVars,
                   decoderVars, sceneVars>>

\* the transport starts closing (close frame received, socket error)
JsBeginClose(i) ==
    /\ UpExists(i)
    /\ UpReadyState(i) \in {"CONNECTING", "OPEN"}
    /\ SetUpState(i, "CLOSING")
    /\ UNCHANGED <<jsTimers, connectedClients, clientState,
                   clientErrored, wire, lastCast, httpResponse, totalClients, inbound, clientVars,
                   decoderVars, sceneVars>>

\* jetstreamConnection.on('error'): logs only
JsErrorReconnects ==
    /\ Len(jsTimers) < MaxJsTimers
    /\ jsTimers' = Append(jsTimers, [remaining |-> JetstreamReconnectDelay, age |-> 0])

JsErrorHandler == UNCHANGED jsTimers

JsError(i) ==
    /\ UpExists(i)
    /\ UpReadyState(i) \in {"CONNECTING", "OPEN"}
    /\ SetUpState(i, "CLOSING")
    /\ JsErrorHandler
    /\ UNCHANGED <<connectedClients, clientState,
                   clientErrored, wire, lastCast, httpResponse, totalClients, inbound, clientVars,
                   decoderVars, sceneVars>>

\* jetstreamConnection.on('close'): setTimeout(connectToJetstream, 5000)
JsCloseShortDelay ==
    /\ Len(jsTimers) < MaxJsTimers
    /\ jsTimers' = Append(jsTimers, [remaining |-> JetstreamReconnectDelay \div 5, age |-> 0])

JsCloseGivesUp == UNCHANGED jsTimers

JsCloseHandler ==
    /\ Len(jsTimers) < MaxJsTimers
    /\ jsTimers' = Append(jsTimers, [remaining |-> JetstreamReconnectDelay, age |-> 0])

JsCloseDropsClients(i) ==
    /\ UpExists(i)
    /\ Live(UpReadyState(i))
    /\ SetUpState(i, "CLOSED")
    /\ JsCloseHandler
    /\ connectedClients' = {}
    /\ UNCHANGED <<clientState,
                   clientErrored, wire, lastCast, httpResponse, totalClients, inbound, clientVars,
                   decoderVars, sceneVars>>

JsClose(i) ==
    /\ UpExists(i)
    /\ Live(UpReadyState(i))
    /\ SetUpState(i, "CLOSED")
    /\ JsCloseHandler
    /\ UNCHANGED <<connectedClients, clientState,
                   clientErrored, wire, lastCast, httpResponse, totalClients, inbound, clientVars,
                   decoderVars, sceneVars>>

\* the least element of a non-empty set of numbers
Min(S) == CHOOSE x \in S : \A y \in S : x <= y

\* time passes up to the next deadline of a pending relay timer
RelayTick ==
    /\ jsTimers # <<>>
    /\ LET d == Min({jsTimers[k].remaining : k \in 1..Len(jsTimers)})
       IN  /\ d > 0
           /\ jsTimers' = [k \in 1..Len(jsTimers) |->
                              [remaining |-> jsTimers[k].remaining - d,
                               age |-> jsTimers[k].age + d]]
    /\ UNCHANGED <<jetstreamConnection, jsDetached, connectedClients, clientState,
                   clientErrored, wire, lastCast, httpResponse, totalClients, inbound, clientVars,
                   decoderVars, sceneVars>>

(***************************************************************************)
(* Fan-out Broadcaster: wss.on('connection') and the handlers it installs. *)
(***************************************************************************)
\* wss.on('connection'): connectedClients.add(ws), then the log line with the size
ConnectionReplays(c) ==
    /\ clientState[c] = "NONE"
    /\ \A d \in Handles : d < c => clientState[d] # "NONE"
    /\ clientState' = [clientState EXCEPT ![c] = "OPEN"]
    /\ connectedClients' = connectedClients \cup {c}
    /\ totalClients' = Cardinality(connectedClients')
    /\ wire' = [wire EXCEPT ![c] =
                    IF \E d \in Handles : wire[d] # <<>>
                    THEN LET d == CHOOSE d \in Handles : wire[d] # <<>>
                         IN  <<wire[d][Len(wire[d])]>>
                    ELSE <<>>]
    /\ UNCHANGED <<jetstreamConnection, jsDetached, jsTimers, clientErrored,
                   lastCast, httpResponse, inbound, clientVars,
                   decoderVars, sceneVars>>

Connection(c) ==
    /\ clientState[c] = "NONE"
    /\ \A d \in Handles : d < c => clientState[d] # "NONE"   \* handles are numbered as they arrive
    /\ clientState' = [clientState EXCEPT ![c] = "OPEN"]
    /\ connectedClients' = connectedClients \cup {c}
    /\ totalClients' = Cardinality(connectedClients')
    /\ UNCHANGED <<jetstreamConnection, jsDetached, jsTimers, clientErrored, wire,
                   lastCast, httpResponse, inbound, clientVars,
                   decoderVars, sceneVars>>

\* the transport of a downstream handle starts closing
ClientBeginClose(c) ==
    /\ clientState[c] = "OPEN"
    /\ clientState' = [clientState EXCEPT ![c] = "CLOSING"]
    /\ UNCHANGED <<jetstreamConnection, jsDetached, jsTimers, connectedClients,
                   clientErrored, wire, lastCast, httpResponse, totalClients, inbound, clientVars,
                   decoderVars, sceneVars>>

\* ws.on('error'): console.error, connectedClients.delete(ws); no "Total clients:" line
ClientErrorKeeps(c) == UNCHANGED connectedClients

ClientErrorHandler(c) == connectedClients' = connectedClients \ {c}

ClientError(c) ==
    /\ clientState[c] \in {"OPEN", "CLOSING"}
    /\ c \notin clientErrored
    /\ clientState' = [clientState EXCEPT ![c] = "CLOSING"]
    /\ clientErrored' = clientErrored \cup {c}
    /\ ClientErrorHandler(c)
    /\ UNCHANGED <<jetstreamConnection, jsDetached, jsTimers, wire, lastCast, httpResponse, totalClients, inbound, clientVars,
                   decoderVars, sceneVars>>

\* ws.on('close'): connectedClients.delete(ws), then the log line with the size
ClientCloseNotIdempotent(c) ==
    /\ connectedClients' = IF c \in connectedClients THEN connectedClients \ {c}
                            ELSE {}
    /\ totalClients' = Cardinality(connectedClients')

ClientCloseClearsSet(c) ==
    /\ connectedClients' = {}
    /\ totalClients' = Cardinality(connectedClients')

ClientCloseHandler(c) ==
    /\ connectedClients' = connectedClients \ {c}
    /\ totalClients' = Cardinality(connectedClients')

ClientClose(c) ==
    /\ clientState[c] \in {"OPEN", "CLOSING"}
    /\ clientState' = [clientState EXCEPT ![c] = "CLOSED"]
    /\ clientErrored' = clientErrored \ {c}
    /\ ClientCloseHandler(c)
    /\ UNCHANGED <<jetstreamConnection, jsDetached, jsTimers, wire, lastCast, httpResponse, inbound, clientVars,
                   decoderVars, sceneVars>>

\* A text frame arrives from a downstream handle.  wss.on('connection')
\* installs no 'message' listener, so the event is emitted to nobody.
ClientMessageEchoes(c, text) ==
    /\ wire' = [wire EXCEPT ![c] = Append(wire[c], <<112, 111, 110, 103>>)]
    /\ UNCHANGED <<jetstreamConnection, jsDetached, jsTimers, connectedClients, lastCast>>

ClientMessageHandler(c, text) ==
    UNCHANGED <<jetstreamConnection, jsDetached, jsTimers, connectedClients, wire, lastCast>>

ClientMessage(c, text) ==
    /\ clientState[c] = "OPEN"
    /\ inbound' = text
    /\ inbound' # inbound
    /\ ClientMessageHandler(c, text)
    /\ UNCHANGED <<clientState, clientErrored, httpResponse, totalClients, clientVars,
                   decoderVars, sceneVars>>

(***************************************************************************)
(* The relay process: module evaluation registers the routes, creates the  *)
(* empty client set and calls connectToJetstream() once.                   *)
(***************************************************************************)
InitRelay ==
    /\ jetstreamConnection = "CONNECTING"
    /\ jsDetached = <<>>
    /\ jsTimers = <<>>
    /\ connectedClients = {}
    /\ clientState = [c \in Handles |-> "NONE"]
    /\ clientErrored = {}
    /\ wire = [c \in Handles |-> <<>>]
    /\ lastCast = [skipped |-> {}, gone |-> {}]
    /\ httpResponse = [path |-> "", body |-> [status |-> 0]]
    /\ totalClients = "none"
    /\ inbound = "none"

\* the relay without the message traffic
NextConnections ==
    \/ \E k \in 1..MaxJsTimers : JsTimerFire(k)
    \/ \E i \in UpInstances : JsOpen(i)
    \/ \E i \in UpInstances : JsBeginClose(i)
    \/ \E i \in UpInstances : JsError(i)
    \/ \E i \in UpInstances : JsClose(i)
    \/ RelayTick
    \/ \E c \in Handles : Connection(c)
    \/ \E c \in Handles : ClientBeginClose(c)
    \/ \E c \in Handles : ClientError(c)
    \/ \E c \in Handles : ClientClose(c)
    \/ \E path \in Paths : HttpGet(path)

NextRelay ==
    \/ NextConnections
    \/ \E i \in UpInstances, data \in Payloads : JsMessage(i, data)

(***************************************************************************)
(* Event decoding (ws.onmessage and createMessage of BlueSkyVis.tsx).      *)
(* A frame is a text frame or a binary frame; event.data of a text frame   *)
(* is its text, event.data of a binary frame is a Blob.  A JavaScript      *)
(* value is a record with its type; an object carries its properties.      *)
(***************************************************************************)
MaxMessages == 2         \* message objects in messageObjectsRef
MaxCreated == 4          \* message objects created during a run

Undefined == [type |-> "undefined"]

Str(chars) == [type |-> "string", val |-> chars]

Obj(properties) == [type |-> "object", fields |-> properties]

Null == [type |-> "null"]

SyntaxError == [type |-> "SyntaxError"]

\* the texts of the frames a socket receives
TextEmpty == ""
TextNull == "null"
TextNoRecord == "{}"
TextEmptyText == "{\"did\":\"abc\",\"commit\":{\"rkey\":\"xyz\",\"record\":{\"text\":\"\"}}}"
TextPlain == "{\"commit\":{\"record\":{\"text\":\"hello\"}}}"
TextNoRkey == "{\"did\":\"abc\",\"commit\":{\"record\":{\"text\":\"yo\"}}}"
TextLinked == "{\"did\":\"abc\",\"commit\":{\"rkey\":\"xyz\",\"record\":{\"text\":\"hi\"}}}"
TextTruncated == "{\"did\":\"abc\",\"commit\":{\"rkey\":"

Texts ==
    {TextEmpty, TextNull, TextNoRecord, TextEmptyText, TextPlain, TextNoRkey, TextLinked,
     TextTruncated}

Frames == [binary : {FALSE}, data : Texts] \cup {[binary |-> TRUE, data |-> TextLinked]}

\* the frames that carry a record without text
RecordFrames == {[binary |-> FALSE, data |-> TextNoRecord]}

\* floor(Math.random() * (4 + specialFrequency)), specialFrequency within 0..0.2
Walls == 0..4

\* String(event.data), the conversion JSON.parse applies to its argument
DataToString(frame) == IF frame.binary THEN "[object Blob]" ELSE frame.data

\* JSON.parse of the texts above; any other text is not JSON
JSONParse(text) ==
    CASE text = TextNull -> Null
      [] text = TextNoRecord -> Obj(<<>>)
      [] text = TextEmptyText ->
           Obj([did |-> Str("abc"),
                commit |-> Obj([rkey |-> Str("xyz"),
                                record |-> Obj([text |-> Str("")])])])
      [] text = TextPlain ->
           Obj([commit |-> Obj([record |-> Obj([text |-> Str("hello")])])])
      [] text = TextNoRkey ->
           Obj([did |-> Str("abc"),
                commit |-> Obj([record |-> Obj([text |-> Str("yo")])])])
      [] text = TextLinked ->
           Obj([did |-> Str("abc"),
                commit |-> Obj([rkey |-> Str("xyz"),
                                record |-> Obj([text |-> Str("hi")])])])
      [] OTHER -> SyntaxError

\* value.name and value?.name on a value that is neither null nor undefined
Get(value, name) ==
    IF value.type = "object" /\ name \in DOMAIN value.fields
    THEN value.fields[name]
    ELSE Undefined

\* the value as the condition of an if
Truthy(value) ==
    CASE value.type \in {"undefined", "null"} -> FALSE
      [] value.type = "string" -> value.val # ""
      [] OTHER -> TRUE

\* data.commit?.record?.text
RecordText(data) == Get(Get(Get(data, "commit"), "record"), "text")

\* `https://bsky.app/profile/${did}/post/${rkey}`
Permalink(did, rkey) ==
    Str("https://bsky.app/profile/" \o did.val \o "/post/" \o rkey.val)

PermalinkOfAnyWall(postData, wall) ==
    LET did == Get(postData, "did")
        rkey == Get(Get(postData, "commit"), "rkey")
    IN  IF Truthy(postData) /\ Truthy(RecordText(postData)) /\ Truthy(did) /\ Truthy(rkey)
        THEN Permalink(did, rkey)
        ELSE Undefined

\* blueSkyUrl of the message createMessage builds from postData on wall
BlueSkyUrl(postData, wall) ==
    LET did == Get(postData, "did")
        rkey == Get(Get(postData, "commit"), "rkey")
    IN  IF Truthy(postData) /\ Truthy(RecordText(postData)) /\ wall = -1
           /\ Truthy(did) /\ Truthy(rkey)
        THEN Permalink(did, rkey)
        ELSE Undefined

\* createMessage(text, postData): the message objects it pushes, given the two
\* random draws: rawWall is floor(Math.random() * (4 + specialFrequency)) and
\* discards tells whether discardFraction > 0 and Math.random() < discardFraction.
\* sceneRef, texturePoolRef and textWrapperRef are set before the first socket
\* is created and never reset.
createMessage(text, postData, rawWall, discards) ==
    LET wall == IF rawWall > 3 THEN -1 ELSE rawWall
    IN  IF wall # -1 /\ discards THEN <<>>
        ELSE <<[text |-> text.val,
                special |-> (wall = -1),
                blueSkyUrl |-> BlueSkyUrl(postData, wall)]>>

\* the statements of ws.onmessage after lastMessageTime = Date.now(): the
\* exception that escapes and the message objects pushed.  data.commit on null
\* throws a TypeError.
Decode(frame, rawWall, discards) ==
    LET data == JSONParse(DataToString(frame))
    IN  IF data = SyntaxError THEN [error |-> "SyntaxError", pushed |-> <<>>]
        ELSE IF data = Null THEN [error |-> "TypeError", pushed |-> <<>>]
        ELSE IF Truthy(RecordText(data))
             THEN [error |-> "none",
                   pushed |-> createMessage(RecordText(data), data, rawWall, discards)]
             ELSE [error |-> "none", pushed |-> <<>>]

(***************************************************************************)
(* Downstream Connection Manager (the WebSocket effect of BlueSkyVis.tsx). *)
(* ws is the readyState of the socket the variable refers to; a socket the *)
(* variable no longer refers to keeps its handlers until its close event   *)
(* and is held in wsDetached.  Socket 0 is the referenced one, socket      *)
(* k > 0 is wsDetached[k].  The handlers of every socket are closures over *)
(* the same variables.  Pending timers are bags of records; a timer record *)
(* is held when the variable that stores timer ids (reconnectTimeout,      *)
(* heartbeatInterval, connectionCheckInterval) still refers to it.         *)
(***************************************************************************)
maxReconnectAttempts == 50
baseReconnectDelay == 2000
connectionTimeout == 10000
BackoffStep == 1000
MaxReconnectDelay == 10000
IntervalPeriod == 5000

\* the age at which an OPEN socket must have been closed by the staleness check
\* at the latest; every age beyond it is counted as StaleAge
CheckedAge == connectionTimeout + IntervalPeriod

StaleAge == CheckedAge + BackoffStep

MaxChains == 2           \* reconnect timers and live sockets of the manager together
MaxIntervals == 2        \* active intervals of one kind

Sockets == 0..(MaxChains - 1)

WsExists(i) == (i = 0 /\ ws # "NULL") \/ i \in 1..Len(wsDetached)

WsReadyState(i) == IF i = 0 THEN ws ELSE wsDetached[i]

\* the sockets whose close event is still to come, and the pending reconnects
Chains ==
    (IF Live(ws) THEN 1 ELSE 0) + Len(wsDetached) + BagCardinality(reconnectTimers)

\* the transport moves socket i to readyState state
SetWsState(i, state) ==
    IF i = 0
    THEN /\ ws' = state
         /\ UNCHANGED wsDetached
    ELSE /\ UNCHANGED ws
         /\ wsDetached' = IF state = "CLOSED" THEN RemoveAt(wsDetached, i)
                          ELSE [wsDetached EXCEPT ![i] = state]

\* a variable that held a timer id is assigned another one
Unhold(timers) ==
    LET out == {[t EXCEPT !.held = FALSE] : t \in BagToSet(timers)}
    IN  [u \in out |-> CopiesIn(u, timers) + CopiesIn([u EXCEPT !.held = TRUE], timers)]

\* clearTimeout / clearInterval of the id the variable holds
ClearHeld(timers) ==
    LET keep == {t \in BagToSet(timers) : ~t.held}
    IN  [t \in keep |-> CopiesIn(t, timers)]

Due(timers, t) == BagIn(t, timers) /\ t.remaining = 0

Without(timers, t) == timers (-) SetToBag({t})

Rearm(timers, t) ==
    Without(timers, t) (+) SetToBag({[t EXCEPT !.remaining = IntervalPeriod]})

Elapse(timers, d) ==
    LET out == {[t EXCEPT !.remaining = @ - d] : t \in BagToSet(timers)}
    IN  [u \in out |-> CopiesIn([u EXCEPT !.remaining = @ + d], timers)]

Remaining(timers) == {t.remaining : t \in BagToSet(timers)}

NewInterval == [remaining |-> IntervalPeriod, held |-> TRUE]

\* Math.min(baseReconnectDelay + (reconnectAttempts * 1000), 10000)
ReconnectDelay(attempts) ==
    LET linear == baseReconnectDelay + attempts * BackoffStep
    IN  IF linear < MaxReconnectDelay THEN linear ELSE MaxReconnectDelay

NewReconnectTimer(attempts) ==
    [remaining |-> ReconnectDelay(attempts), delay |-> ReconnectDelay(attempts),
     held |-> TRUE]

\* scheduleReconnect(): the pending timers after the call
scheduleReconnect(timers, attempts, should) ==
    IF ~should \/ attempts >= maxReconnectAttempts THEN timers
    ELSE Unhold(timers) (+) SetToBag({NewReconnectTimer(attempts)})

\* connectWebSocket(), called with the pending timers and the attempt count
connectWebSocket(timers, attempts) ==
    IF urlOk
    THEN /\ ws' = "CONNECTING"
         /\ wsDetached' = IF Live(ws) THEN Append(wsDetached, ws) ELSE wsDetached
         /\ reconnectTimers' = timers
    ELSE /\ UNCHANGED <<ws, wsDetached>>
         /\ reconnectTimers' = scheduleReconnect(timers, attempts, shouldReconnect)

\* the callback of the timer set by scheduleReconnect
ReconnectCallbackOnlyCounts(t) ==
    /\ reconnectAttempts' = IF shouldReconnect THEN reconnectAttempts + 1
                                               ELSE reconnectAttempts
    /\ reconnectTimers' = Without(reconnectTimers, t)
    /\ UNCHANGED <<ws, wsDetached>>

ReconnectCallback(t) ==
    IF shouldReconnect
    THEN /\ reconnectAttempts' = reconnectAttempts + 1
         /\ connectWebSocket(Without(reconnectTimers, t), reconnectAttempts + 1)
    ELSE /\ reconnectTimers' = Without(reconnectTimers, t)
         /\ UNCHANGED <<ws, wsDetached, reconnectAttempts>>

ReconnectFire(t) ==
    /\ Due(reconnectTimers, t)
    /\ ReconnectCallback(t)
    /\ UNCHANGED <<heartbeatIntervals, connectionCheckIntervals, shouldReconnect,
                   lastMessageAge, mounted, urlOk, relayVars, decoderVars, sceneVars>>

WsOpenKeepsCount(i) ==
    /\ WsExists(i)
    /\ WsReadyState(i) = "CONNECTING"
    /\ BagCardinality(heartbeatIntervals) < MaxIntervals
    /\ BagCardinality(connectionCheckIntervals) < MaxIntervals
    /\ SetWsState(i, "OPEN")
    /\ UNCHANGED reconnectAttempts
    /\ lastMessageAge' = 0
    /\ heartbeatIntervals' = Unhold(heartbeatIntervals) (+) SetToBag({NewInterval})
    /\ connectionCheckIntervals' =
           Unhold(connectionCheckIntervals) (+) SetToBag({NewInterval})
    /\ UNCHANGED <<reconnectTimers, shouldReconnect, mounted, urlOk, relayVars, decoderVars, sceneVars>>

\* ws.onopen
WsOpen(i) ==
    /\ WsExists(i)
    /\ WsReadyState(i) = "CONNECTING"
    /\ BagCardinality(heartbeatIntervals) < MaxIntervals
    /\ BagCardinality(connectionCheckIntervals) < MaxIntervals
    /\ SetWsState(i, "OPEN")
    /\ reconnectAttempts' = 0
    /\ lastMessageAge' = 0
    /\ heartbeatIntervals' = Unhold(heartbeatIntervals) (+) SetToBag({NewInterval})
    /\ connectionCheckIntervals' =
           Unhold(connectionCheckIntervals) (+) SetToBag({NewInterval})
    /\ UNCHANGED <<reconnectTimers, shouldReconnect, mounted, urlOk, relayVars, decoderVars, sceneVars>>

WsMessageParsesFirst(i, frame, rawWall, discards) ==
    LET result == Decode(frame, rawWall, discards)
    IN  /\ WsExists(i)
        /\ WsReadyState(i) = "OPEN"
        /\ Len(messageObjects) + Len(result.pushed) <= MaxMessages
        /\ created + Len(result.pushed) <= MaxCreated
        /\ created' = created + Len(result.pushed)
        /\ messageIds' = messageIds \o [k \in 1..Len(result.pushed) |-> created + k]
        /\ UNCHANGED <<growingMessages, removals, textureReleases>>
        /\ lastMessageAge' = IF result.error = "none" THEN 0 ELSE lastMessageAge
        /\ handlerError' = result.error
        /\ messageObjects' = messageObjects \o result.pushed
        /\ UNCHANGED <<ws, wsDetached, reconnectTimers, heartbeatIntervals,
                       connectionCheckIntervals, reconnectAttempts, shouldReconnect,
                       mounted, urlOk, relayVars, sceneVars>>

\* ws.onmessage, for a frame and the random draws of createMessage
WsMessage(i, frame, rawWall, discards) ==
    LET result == Decode(frame, rawWall, discards)
    IN  /\ WsExists(i)
        /\ WsReadyState(i) = "OPEN"
        /\ Len(messageObjects) + Len(result.pushed) <= MaxMessages
        /\ created + Len(result.pushed) <= MaxCreated
        /\ created' = created + Len(result.pushed)
        /\ messageIds' = messageIds \o [k \in 1..Len(result.pushed) |-> created + k]
        /\ UNCHANGED <<growingMessages, removals, textureReleases>>
        /\ lastMessageAge' = 0
        /\ handlerError' = result.error
        /\ messageObjects' = messageObjects \o result.pushed
        /\ UNCHANGED <<ws, wsDetached, reconnectTimers, heartbeatIntervals,
                       connectionCheckIntervals, reconnectAttempts, shouldReconnect,
                       mounted, urlOk, relayVars, sceneVars>>

\* ws.onerror: empty
WsErrorReconnects ==
    reconnectTimers' = scheduleReconnect(reconnectTimers, reconnectAttempts,
                                         shouldReconnect)

WsErrorHandler == UNCHANGED reconnectTimers

\* the transport of a socket has failed: the error event, the close event follows
WsError(i) ==
    /\ WsExists(i)
    /\ WsReadyState(i) \in {"CONNECTING", "OPEN"}
    /\ SetWsState(i, "CLOSING")
    /\ WsErrorHandler
    /\ UNCHANGED <<heartbeatIntervals, connectionCheckIntervals,
                   reconnectAttempts, shouldReconnect, lastMessageAge, mounted,
                   urlOk, relayVars, decoderVars, sceneVars>>

\* ws.onclose
WsClose(i) ==
    /\ WsExists(i)
    /\ Live(WsReadyState(i))
    /\ SetWsState(i, "CLOSED")
    /\ heartbeatIntervals' = ClearHeld(heartbeatIntervals)
    /\ connectionCheckIntervals' = ClearHeld(connectionCheckIntervals)
    /\ reconnectTimers' = IF shouldReconnect
                          THEN scheduleReconnect(reconnectTimers, reconnectAttempts,
                                                 shouldReconnect)
                          ELSE reconnectTimers
    /\ UNCHANGED <<reconnectAttempts, shouldReconnect, lastMessageAge, mounted,
                   urlOk, relayVars, decoderVars, sceneVars>>

HeartbeatKeepsSocket(t, throws) ==
    /\ Due(heartbeatIntervals, t)
    /\ heartbeatIntervals' = Rearm(heartbeatIntervals, t)
    /\ throws => ws = "OPEN" /\ Chains < MaxChains
    /\ IF ws = "OPEN" /\ throws /\ shouldReconnect
       THEN /\ UNCHANGED ws
            /\ reconnectTimers' = scheduleReconnect(reconnectTimers, reconnectAttempts,
                                                    shouldReconnect)
       ELSE UNCHANGED <<ws, reconnectTimers>>
    /\ UNCHANGED <<wsDetached, connectionCheckIntervals, reconnectAttempts,
                   shouldReconnect, lastMessageAge, mounted, urlOk, relayVars, decoderVars, sceneVars>>

\* the heartbeat interval callback; throws tells whether ws.send('ping') throws
HeartbeatTick(t, throws) ==
    /\ Due(heartbeatIntervals, t)
    /\ heartbeatIntervals' = Rearm(heartbeatIntervals, t)
    /\ throws => ws = "OPEN" /\ Chains < MaxChains
    /\ IF ws = "OPEN" /\ throws /\ shouldReconnect
       THEN /\ ws' = "CLOSING"
            /\ reconnectTimers' = scheduleReconnect(reconnectTimers, reconnectAttempts,
                                                    shouldReconnect)
       ELSE UNCHANGED <<ws, reconnectTimers>>
    /\ UNCHANGED <<wsDetached, connectionCheckIntervals, reconnectAttempts,
                   shouldReconnect, lastMessageAge, mounted, urlOk, relayVars, decoderVars, sceneVars>>

\* the staleness check interval callback
CheckTick(t) ==
    /\ Due(connectionCheckIntervals, t)
    /\ connectionCheckIntervals' = Rearm(connectionCheckIntervals, t)
    /\ ws' = IF lastMessageAge > connectionTimeout /\ ws = "OPEN" THEN "CLOSING" ELSE ws
    /\ UNCHANGED <<wsDetached, reconnectTimers, heartbeatIntervals, reconnectAttempts,
                   shouldReconnect, lastMessageAge, mounted, urlOk, relayVars, decoderVars, sceneVars>>

\* the cleanup function returned by the effect
CleanupForgetsFlag ==
    /\ mounted
    /\ mounted' = FALSE
    /\ UNCHANGED shouldReconnect
    /\ reconnectTimers' = ClearHeld(reconnectTimers)
    /\ heartbeatIntervals' = ClearHeld(heartbeatIntervals)
    /\ connectionCheckIntervals' = ClearHeld(connectionCheckIntervals)
    /\ ws' = IF ws \in {"CONNECTING", "OPEN"} THEN "CLOSING" ELSE ws
    /\ UNCHANGED <<wsDetached, reconnectAttempts, lastMessageAge, urlOk, relayVars, decoderVars, sceneVars>>

Cleanup ==
    /\ mounted
    /\ mounted' = FALSE
    /\ shouldReconnect' = FALSE
    /\ reconnectTimers' = ClearHeld(reconnectTimers)
    /\ heartbeatIntervals' = ClearHeld(heartbeatIntervals)
    /\ connectionCheckIntervals' = ClearHeld(connectionCheckIntervals)
    /\ ws' = IF ws \in {"CONNECTING", "OPEN"} THEN "CLOSING" ELSE ws
    /\ UNCHANGED <<wsDetached, reconnectAttempts, lastMessageAge, urlOk, relayVars, decoderVars, sceneVars>>

\* the deadlines of the manager's pending timers, as time still to pass
Deadlines ==
    Remaining(reconnectTimers) \cup Remaining(heartbeatIntervals)
        \cup Remaining(connectionCheckIntervals)

\* Date.now() - lastMessageTime after d more milliseconds.  The difference is
\* read only while ws is OPEN and onopen assigns lastMessageTime, so while ws
\* is not OPEN the age is not followed and counts as StaleAge.
Aged(age, d) ==
    IF ws # "OPEN" \/ age + d > CheckedAge THEN StaleAge ELSE age + d

\* time passes up to the next deadline of a pending timer of the manager
ClientTick ==
    /\ LET d == IF Deadlines = {} THEN StaleAge ELSE Min(Deadlines)
       IN  /\ d > 0
           /\ reconnectTimers' = Elapse(reconnectTimers, d)
           /\ heartbeatIntervals' = Elapse(heartbeatIntervals, d)
           /\ connectionCheckIntervals' = Elapse(connectionCheckIntervals, d)
           /\ lastMessageAge' = Aged(lastMessageAge, d)
    /\ <<reconnectTimers', heartbeatIntervals', connectionCheckIntervals', lastMessageAge'>>
           # <<reconnectTimers, heartbeatIntervals, connectionCheckIntervals, lastMessageAge>>
    /\ UNCHANGED <<ws, wsDetached, reconnectAttempts, shouldReconnect, mounted,
                   urlOk, relayVars, decoderVars, sceneVars>>

ReconnectTimerValues ==
    [remaining : {n * BackoffStep : n \in 0..10},
     delay : {n * BackoffStep : n \in 2..10},
     held : BOOLEAN]

IntervalValues ==
    [remaining : {n * BackoffStep : n \in 0..5}, held : BOOLEAN]

(***************************************************************************)
(* The game: key handling (ArwingControls.ts), the Arwing (Arwing.ts) and   *)
(* the frame update updateScene (BlueSkyVis.tsx).  The key timers and the   *)
(* roll are read against one clock, the placeholder and the destruction     *)
(* timer against another: the code never compares the two, and advancing    *)
(* them by separate actions covers every relative timing.                   *)
(***************************************************************************)
MaxFlagTimers == 2       \* pending flag-reset timers
MaxCrashes == 4          \* collisions of the Arwing with messages during a run

Keys == {"a", "d"}

doubleClickTime == 300
FlagResetDelay == 100
RollDuration == 700
maxHealth == 3
DestructionDelay == 1500
FadeStart == 2000
FadeDuration == 1000
FadeEnd == FadeStart + FadeDuration
GrowDuration == 1000

\* the value of lastPress that stands for lastAPress = 0
NoPress == 0 - FlagResetDelay

\* the roll direction of a key: startBarrelRoll(1) for A, startBarrelRoll(-1) for D
RollDirection(key) == IF key = "a" THEN 1 ELSE 0 - 1

\* the time the placeholder clock advances in one step
SceneStep == FadeDuration \div 2

\* updateScene runs as the closure of the render in which the effect ran:
\* the isArwingDestroyed it reads is the state of that render
CapturedIsArwingDestroyed == FALSE

\* handleDoubleA, handleDoubleD
handleDouble(key) ==
    IF lastPress[key] # NoPress /\ lastPress[key] < doubleClickTime
    THEN /\ barrelRoll' = [barrelRoll EXCEPT ![key] = TRUE]
         /\ lastPress' = [lastPress EXCEPT ![key] = NoPress]
    ELSE /\ lastPress' = [lastPress EXCEPT ![key] = 0]
         /\ UNCHANGED barrelRoll

\* handleKeyDown for A or D: the press of a key that is up calls
\* handleDoubleA (handleDoubleD) and marks the key as not released; the
\* repeated keydown of a held key finds aReleased false and changes nothing
handleKeyDownOnRepeat(key) ==
    /\ handleDouble(key)
    /\ released' = [released EXCEPT ![key] = FALSE]

handleKeyDown(key) ==
    IF released[key]
    THEN /\ handleDouble(key)
         /\ released' = [released EXCEPT ![key] = FALSE]
    ELSE UNCHANGED <<released, lastPress, barrelRoll>>

KeyDown(key) ==
    /\ handleKeyDown(key)
    /\ UNCHANGED <<flagTimers, isBarrelRolling, barrelRollTime, barrelRollDirection,
                   rollAngle, gameVars, placeholderVars, relayVars, clientVars, decoderVars>>

\* handleKeyUp for A or D: marks the release and sets the flag-reset timer
KeyUp(key) ==
    /\ ~released[key]
    /\ BagCardinality(flagTimers) < MaxFlagTimers
    /\ released' = [released EXCEPT ![key] = TRUE]
    /\ flagTimers' = flagTimers (+) SetToBag({FlagResetDelay})
    /\ UNCHANGED <<lastPress, barrelRoll, isBarrelRolling, barrelRollTime,
                   barrelRollDirection, rollAngle, gameVars, placeholderVars, relayVars,
                   clientVars, decoderVars>>

\* the callback of the timer of handleKeyUp
FlagTimerCallback == barrelRoll' = [key \in Keys |-> FALSE]

FlagTimerFire ==
    /\ BagIn(0, flagTimers)
    /\ flagTimers' = flagTimers (-) SetToBag({0})
    /\ FlagTimerCallback
    /\ UNCHANGED <<released, lastPress, isBarrelRolling, barrelRollTime,
                   barrelRollDirection, rollAngle, gameVars, placeholderVars, relayVars,
                   clientVars, decoderVars>>

\* FlagResetDelay ms pass on the clock of the controls
ControlsTick ==
    /\ ~BagIn(0, flagTimers)
    /\ flagTimers' = [r \in {t - FlagResetDelay : t \in BagToSet(flagTimers)} |->
                          CopiesIn(r + FlagResetDelay, flagTimers)]
    /\ lastPress' = [key \in Keys |->
                        IF lastPress[key] = NoPress \/ lastPress[key] >= doubleClickTime
                        THEN lastPress[key]
                        ELSE lastPress[key] + FlagResetDelay]
    /\ barrelRollTime' = IF isBarrelRolling /\ barrelRollTime < RollDuration
                         THEN barrelRollTime + FlagResetDelay
                         ELSE barrelRollTime
    /\ <<flagTimers', lastPress', barrelRollTime'>> # <<flagTimers, lastPress, barrelRollTime>>
    /\ UNCHANGED <<released, barrelRoll, isBarrelRolling, barrelRollDirection,
                   rollAngle, gameVars, placeholderVars, relayVars, clientVars, decoderVars>>

\* easeOutBack(x) = 1 + c3 (x - 1)^3 + c1 (x - 1)^2 with c1 = 1.70158 and
\* c3 = c1 + 1, in thousandths, for x = barrelRollTime / rollDuration
EaseC1 == 1702
EaseC3 == EaseC1 + 1000
Thousand == 1000

easeOutBack(time) ==
    LET q == (time * Thousand) \div RollDuration - Thousand
        square == (q * q) \div Thousand
        cube == (square * q) \div Thousand
    IN  Thousand + (EaseC3 * cube) \div Thousand + (EaseC1 * square) \div Thousand

\* startBarrelRoll(direction)
startBarrelRoll(direction) ==
    IF isBarrelRolling
    THEN UNCHANGED <<isBarrelRolling, barrelRollTime, barrelRollDirection>>
    ELSE /\ isBarrelRolling' = TRUE
         /\ barrelRollTime' = 0
         /\ barrelRollDirection' = direction

\* Arwing.handleBarrelRoll with the controls of this frame
handleBarrelRollRestarts ==
    IF \E key \in Keys : barrelRoll[key]
    THEN /\ isBarrelRolling' = TRUE
         /\ barrelRollTime' = 0
         /\ barrelRollDirection' = IF barrelRoll["a"] THEN RollDirection("a")
                                                      ELSE RollDirection("d")
         /\ UNCHANGED rollAngle
    ELSE IF isBarrelRolling /\ barrelRollTime >= RollDuration
         THEN /\ isBarrelRolling' = FALSE
              /\ barrelRollTime' = 0
              /\ rollAngle' = 0
              /\ UNCHANGED barrelRollDirection
         ELSE UNCHANGED <<isBarrelRolling, barrelRollTime, barrelRollDirection, rollAngle>>

handleBarrelRoll ==
    IF isBarrelRolling
    THEN IF barrelRollTime >= RollDuration
         THEN /\ isBarrelRolling' = FALSE
              /\ barrelRollTime' = 0
              /\ rollAngle' = 0
              /\ UNCHANGED barrelRollDirection
         ELSE /\ rollAngle' = barrelRollDirection * easeOutBack(barrelRollTime)
              /\ UNCHANGED <<isBarrelRolling, barrelRollTime, barrelRollDirection>>
    ELSE /\ UNCHANGED rollAngle
         /\ IF barrelRoll["a"] THEN startBarrelRoll(RollDirection("a"))
            ELSE IF barrelRoll["d"] THEN startBarrelRoll(RollDirection("d"))
            ELSE UNCHANGED <<isBarrelRolling, barrelRollTime, barrelRollDirection>>

\* Arwing.takeDamage(blueSkyUrl), on a record of health and collectedUrls
takeDamage(arwing, blueSkyUrl) ==
    [arwing EXCEPT !.health = @ - 1,
                   !.collectedUrls = IF Truthy(blueSkyUrl) THEN Append(@, blueSkyUrl)
                                                           ELSE @]

\* Arwing.getLastCollectedUrl()
getLastCollectedUrl(urls) == IF urls = <<>> THEN Undefined ELSE urls[Len(urls)]

\* What becomes of a message in a frame: it flies on, a laser hits it, the
\* Arwing collides with it, or it has passed the camera (z > 10).
Fates == {"fly", "shot", "crash", "gone"}

ValidFates(fates) ==
    /\ \A i \in DOMAIN fates :
           /\ fates[i] = "shot" => messageObjects[i].special
           /\ fates[i] = "crash" => messageObjects[i].special /\ ~CapturedIsArwingDestroyed
    /\ (maxHealth - health) + Cardinality({i \in DOMAIN fates : fates[i] = "crash"})
           <= MaxCrashes

\* the collision branch of the message loop
Collision(arwing, message) ==
    LET hit == takeDamage(arwing, message.blueSkyUrl)
        lastUrl == getLastCollectedUrl(hit.collectedUrls)
    IN  IF hit.health <= 0 /\ Truthy(lastUrl)
        THEN [hit EXCEPT !.destroyed = TRUE, !.pending = lastUrl]
        ELSE hit

\* the occurrences of id in a sequence of identities
Count(ids, id) == Cardinality({k \in DOMAIN ids : ids[k] = id})

\* dispose, release of the texture and splice: the laser hit, the collision
\* that leaves the Arwing alive, and the message that has passed the camera
Dispose(loop, id) == [loop EXCEPT !.disposed = Append(@, id)]

\* the collision that destroys the Arwing: the message is pushed to
\* growingMessagesRef and spliced, neither disposed nor released
StartGrowingDisposes(loop, id) ==
    [loop EXCEPT !.grown = Append(@, id), !.disposed = Append(@, id)]

StartGrowing(loop, id) == [loop EXCEPT !.grown = Append(@, id)]

\* one iteration of the message loop, for message i
MessageStep(loop, i, fate) ==
    CASE fate \in {"shot", "gone"} -> Dispose(loop, messageIds[i])
      [] fate = "crash" ->
           LET hit == Collision(loop, messageObjects[i])
           IN  IF hit.health <= 0 THEN StartGrowing(hit, messageIds[i])
                                  ELSE Dispose(hit, messageIds[i])
      [] OTHER -> loop

\* the message loop of updateScene, from the last message to the first
RECURSIVE UpdateMessages(_, _, _)
UpdateMessages(arwing, i, fates) ==
    IF i = 0 THEN arwing
    ELSE UpdateMessages(MessageStep(arwing, i, fates[i]), i - 1, fates)

\* the messages the loop leaves in messageObjectsRef.current
RECURSIVE KeptMessages(_, _)
KeptMessages(i, fates) ==
    IF i = 0 THEN <<>>
    ELSE KeptMessages(i - 1, fates)
             \o (IF fates[i] = "fly" THEN <<messageObjects[i]>> ELSE <<>>)

\* the identities of the messages the loop leaves
RECURSIVE KeptIds(_, _)
KeptIds(i, fates) ==
    IF i = 0 THEN <<>>
    ELSE KeptIds(i - 1, fates) \o (IF fates[i] = "fly" THEN <<messageIds[i]>> ELSE <<>>)

\* the loop over growingMessagesRef: a message whose animation is over is
\* disposed, its texture released, and it is spliced out
GrowingEnded(growing) == growing.elapsed > GrowDuration

\* the releases of the texture of message id by the loop
EndedCount(id) ==
    Cardinality({k \in DOMAIN growingMessages :
                    growingMessages[k].id = id /\ GrowingEnded(growingMessages[k])})

\* the first k growing messages without those the loop splices out
RECURSIVE StillGrowing(_)
StillGrowing(k) ==
    IF k = 0 THEN <<>>
    ELSE StillGrowing(k - 1)
             \o (IF GrowingEnded(growingMessages[k]) THEN <<>>
                                                      ELSE <<growingMessages[k]>>)

\* the fade of the connecting message
FadePercent(elapsed) ==
    IF elapsed - FadeStart >= FadeDuration THEN 100
    ELSE ((elapsed - FadeStart) * 100) \div FadeDuration

FadeWhenConnected ==
    IF connectingMessage # Null /\ ws = "OPEN"
    THEN /\ connectingMessage' = Null
         /\ placeholderReleases' = placeholderReleases + 1
    ELSE UNCHANGED <<connectingMessage, placeholderReleases>>

FadeConnectingMessage ==
    IF connectingMessage # Null /\ sinceCreated > FadeStart
    THEN IF FadePercent(sinceCreated) = 100
         THEN /\ connectingMessage' = Null
              /\ placeholderReleases' = placeholderReleases + 1
         ELSE /\ connectingMessage' = [alpha |-> 100 - FadePercent(sinceCreated)]
              /\ UNCHANGED placeholderReleases
    ELSE UNCHANGED <<connectingMessage, placeholderReleases>>

\* updateScene: one animation frame
FrameUpdate(fates) ==
    /\ mounted
    /\ navigatedTo = Null
    /\ ValidFates(fates)
    /\ handleBarrelRoll
    /\ LET before == [health |-> health, collectedUrls |-> collectedUrls,
                      destroyed |-> FALSE, pending |-> Null,
                      disposed |-> <<>>, grown |-> <<>>]
           after == UpdateMessages(before, Len(messageObjects), fates)
       IN  /\ health' = after.health
           /\ removals' = [id \in DOMAIN removals |->
                               removals[id] + Count(after.disposed, id)
                                   + Count(after.grown, id)]
           /\ textureReleases' = [id \in DOMAIN textureReleases |->
                                      textureReleases[id] + Count(after.disposed, id)
                                          + EndedCount(id)]
           /\ growingMessages' =
                  StillGrowing(Len(growingMessages))
                      \o [k \in 1..Len(after.grown) |->
                              [id |-> after.grown[k], elapsed |-> 0]]
           /\ collectedUrls' = after.collectedUrls
           /\ IF after.destroyed
              THEN /\ isArwingDestroyed' = TRUE
                   /\ pendingBlueskyUrl' = after.pending
                   /\ destructionTimers' = IF Truthy(after.pending)
                                           THEN {DestructionDelay} ELSE destructionTimers
              ELSE UNCHANGED <<isArwingDestroyed, pendingBlueskyUrl, destructionTimers>>
    /\ messageObjects' = KeptMessages(Len(messageObjects), fates)
    /\ messageIds' = KeptIds(Len(messageObjects), fates)
    /\ FadeConnectingMessage
    /\ UNCHANGED <<navigatedTo, released, lastPress, barrelRoll, flagTimers,
                   sinceCreated, handlerError, created, relayVars, clientVars>>

\* SceneStep ms pass on the clock of the placeholder and the destruction timer
SceneTick ==
    /\ 0 \notin destructionTimers
    /\ destructionTimers' = {IF t > SceneStep THEN t - SceneStep ELSE 0 :
                                 t \in destructionTimers}
    /\ sinceCreated' = IF connectingMessage # Null /\ sinceCreated < FadeEnd
                       THEN sinceCreated + SceneStep
                       ELSE sinceCreated
    /\ growingMessages' = [k \in DOMAIN growingMessages |->
                               [growingMessages[k] EXCEPT
                                    !.elapsed = IF @ > GrowDuration THEN @
                                                ELSE @ + SceneStep]]
    /\ <<destructionTimers', sinceCreated', growingMessages'>>
           # <<destructionTimers, sinceCreated, growingMessages>>
    /\ UNCHANGED <<health, collectedUrls, isArwingDestroyed, pendingBlueskyUrl,
                   navigatedTo, controlVars, connectingMessage, placeholderReleases,
                   relayVars, clientVars, messageObjects, handlerError, messageIds,
                   created, removals, textureReleases>>

\* the callback of the timer of the destruction effect
DestructionTimerFire ==
    /\ 0 \in destructionTimers
    /\ destructionTimers' = {}
    /\ navigatedTo' = pendingBlueskyUrl
    /\ UNCHANGED <<health, collectedUrls, isArwingDestroyed, pendingBlueskyUrl,
                   controlVars, placeholderVars, relayVars, clientVars, decoderVars>>

\* the state after the first render and the scene set-up of the effect
InitScene ==
    /\ health = maxHealth
    /\ collectedUrls = <<>>
    /\ isArwingDestroyed = FALSE
    /\ pendingBlueskyUrl = Null
    /\ destructionTimers = {}
    /\ navigatedTo = Null
    /\ released = [key \in Keys |-> TRUE]
    /\ lastPress = [key \in Keys |-> NoPress]
    /\ barrelRoll = [key \in Keys |-> FALSE]
    /\ flagTimers = EmptyBag
    /\ isBarrelRolling = FALSE
    /\ barrelRollTime = 0
    /\ barrelRollDirection = 0
    /\ rollAngle = 0
    /\ connectingMessage = [alpha |-> 100]
    /\ sinceCreated = 0
    /\ placeholderReleases = 0

\* the state after the effect has run: connectWebSocket() was called once
InitClientWith(ok) ==
    /\ urlOk = ok
    /\ ws = IF ok THEN "CONNECTING" ELSE "NULL"
    /\ wsDetached = <<>>
    /\ reconnectTimers = IF ok THEN EmptyBag ELSE scheduleReconnect(EmptyBag, 0, TRUE)
    /\ heartbeatIntervals = EmptyBag
    /\ connectionCheckIntervals = EmptyBag
    /\ reconnectAttempts = 0
    /\ shouldReconnect = TRUE
    /\ lastMessageAge = 0
    /\ mounted = TRUE
    /\ messageObjects = <<>>
    /\ handlerError = "none"
    /\ messageIds = <<>>
    /\ created = 0
    /\ growingMessages = <<>>
    /\ removals = [id \in 1..MaxCreated |-> 0]
    /\ textureReleases = [id \in 1..MaxCreated |-> 0]
    /\ InitScene

InitClient == \E ok \in BOOLEAN : InitClientWith(ok)

\* The connection manager handles a frame the same way whatever it carries;
\* here the frames carry records without text, which create no message.
NextClient ==
    \/ \E t \in ReconnectTimerValues : ReconnectFire(t)
    \/ \E i \in Sockets : WsOpen(i)
    \/ \E i \in Sockets, frame \in RecordFrames : WsMessage(i, frame, 0, FALSE)
    \/ \E i \in Sockets : WsError(i)
    \/ \E i \in Sockets : WsClose(i)
    \/ \E t \in IntervalValues, throws \in BOOLEAN : HeartbeatTick(t, throws)
    \/ \E t \in IntervalValues : CheckTick(t)
    \/ Cleanup
    \/ ClientTick

\* the relay, beside a viewer that does nothing
Init == InitRelay /\ InitClientWith(TRUE)

Next == NextRelay

\* one viewer's connection manager, beside a relay that does nothing
InitViewer == InitRelay /\ InitClient

SpecClient == InitViewer /\ [][NextClient]_vars

\* one connection of the viewer receiving frames of every kind: the manager
\* without failing pings, so that one socket exists at a time
NextDecoder ==
    \/ \E t \in ReconnectTimerValues : ReconnectFire(t)
    \/ \E i \in Sockets : WsOpen(i)
    \/ \E i \in Sockets, frame \in Frames, rawWall \in Walls, discards \in BOOLEAN :
           WsMessage(i, frame, rawWall, discards)
    \/ \E i \in Sockets : WsError(i)
    \/ \E i \in Sockets : WsClose(i)
    \/ \E t \in IntervalValues : HeartbeatTick(t, FALSE)
    \/ \E t \in IntervalValues : CheckTick(t)
    \/ Cleanup
    \/ ClientTick

SpecDecoder == Init /\ [][NextDecoder]_vars

\* The connection manager under the scheduling of the browser's event loop:
\* time passes and the callback of a due timer or interval runs.  Nothing
\* is assumed of the network: a socket may stay in any state for ever.
SpecClientLive ==
    /\ InitViewer
    /\ [][NextClient]_vars
    /\ WF_vars(ClientTick)
    /\ WF_vars(\E t \in ReconnectTimerValues : ReconnectFire(t))
    /\ WF_vars(\E t \in IntervalValues, throws \in BOOLEAN : HeartbeatTick(t, throws))
    /\ WF_vars(\E t \in IntervalValues : CheckTick(t))

Spec == Init /\ [][Next]_vars

\* the texts a viewer sends: ws.send('ping') of the heartbeat
ClientTexts == {"ping"}

\* the relay together with the text frames its downstream clients send
NextInbound ==
    \/ NextRelay
    \/ \E c \in Handles, text \in ClientTexts : ClientMessage(c, text)

SpecInbound == Init /\ [][NextInbound]_vars

\* The game of one viewer: messages arrive on the open socket, frames move
\* them, and the Arwing collides with the special ones.
NextGame ==
    \/ \E i \in Sockets : WsOpen(i)
    \/ \E i \in Sockets, frame \in Frames, rawWall \in Walls, discards \in BOOLEAN :
           WsMessage(i, frame, rawWall, discards)
    \/ \E fates \in [1..Len(messageObjects) -> Fates] : FrameUpdate(fates)
    \/ SceneTick
    \/ DestructionTimerFire

SpecGame == Init /\ [][NextGame]_vars

\* The controls of one viewer: key events, the flag-reset timers and frames.
NextControls ==
    \/ \E key \in Keys : KeyDown(key)
    \/ \E key \in Keys : KeyUp(key)
    \/ FlagTimerFire
    \/ ControlsTick
    \/ \E fates \in [1..Len(messageObjects) -> Fates] : FrameUpdate(fates)

\* The event loop runs the callback of a due timer, time passes, and the
\* browser keeps calling the animation frame callback.  Nothing is assumed
\* of the player.
SpecControls ==
    /\ Init
    /\ [][NextControls]_vars
    /\ WF_vars(FlagTimerFire)
    /\ WF_vars(ControlsTick)
    /\ WF_vars(\E fates \in [1..Len(messageObjects) -> Fates] : FrameUpdate(fates))

\* The connecting message of one viewer beside its connection manager.
NextPlaceholder ==
    \/ \E t \in ReconnectTimerValues : ReconnectFire(t)
    \/ \E i \in Sockets : WsOpen(i)
    \/ \E i \in Sockets : WsError(i)
    \/ \E i \in Sockets : WsClose(i)
    \/ \E t \in IntervalValues : HeartbeatTick(t, FALSE)
    \/ \E t \in IntervalValues : CheckTick(t)
    \/ Cleanup
    \/ ClientTick
    \/ SceneTick
    \/ \E fates \in [1..Len(messageObjects) -> Fates] : FrameUpdate(fates)

SpecPlaceholder == Init /\ [][NextPlaceholder]_vars

\* The upstream connection of the relay and the downstream connection of
\* one viewer side by side: the two connections whose error events the
\* programs listen to.  Each process has its own clock.
NextLinks ==
    \/ \E k \in 1..MaxJsTimers : JsTimerFire(k)
    \/ \E i \in UpInstances : JsOpen(i)
    \/ \E i \in UpInstances : JsBeginClose(i)
    \/ \E i \in UpInstances : JsError(i)
    \/ \E i \in UpInstances : JsClose(i)
    \/ RelayTick
    \/ \E t \in ReconnectTimerValues : ReconnectFire(t)
    \/ \E i \in Sockets : WsOpen(i)
    \/ \E i \in Sockets : WsError(i)
    \/ \E i \in Sockets : WsClose(i)
    \/ \E t \in IntervalValues : HeartbeatTick(t, FALSE)
    \/ \E t \in IntervalValues : CheckTick(t)
    \/ Cleanup
    \/ ClientTick

SpecLinks == Init /\ [][NextLinks]_vars

\* The connection handling of the relay under the scheduling of the event
\* loop: time passes and a due timer runs.  Upstream messages change neither
\* a connection nor a timer and are left out.
SpecLive == Init /\ [][NextConnections]_vars
                 /\ WF_vars(RelayTick)
                 /\ WF_vars(\E k \in 1..MaxJsTimers : JsTimerFire(k))

(***************************************************************************)
(* Properties of the relay.                                                *)
(***************************************************************************)
LiveCount ==
    (IF Live(jetstreamConnection) THEN 1 ELSE 0)
        + Cardinality({k \in 1..Len(jsDetached) : Live(jsDetached[k])})

\* the close event of an upstream instance is dispatched in this step
JsClosedNow ==
    \/ Live(jetstreamConnection) /\ jetstreamConnection' = "CLOSED"
    \/ Len(jsDetached') < Len(jsDetached)

\* connectToJetstream runs in this step
JsConnectNow ==
    \/ jetstreamConnection # "CONNECTING" /\ jetstreamConnection' = "CONNECTING"
    \/ Len(jsDetached') > Len(jsDetached)

ReconnectTimer == [remaining |-> 5000, age |-> 0]

\* C1: every upstream close event schedules exactly one reconnect timer, of
\* 5000 ms; nothing else schedules one; connectToJetstream runs from a timer
\* exactly 5000 ms after the close; and there is never more than one pending
\* reconnect timer.
C1_OneReconnectPerClose ==
    [][ /\ JsClosedNow => jsTimers' = Append(jsTimers, ReconnectTimer)
        /\ ~JsClosedNow => Len(jsTimers') <= Len(jsTimers)
        /\ JsConnectNow => /\ Len(jsTimers') = Len(jsTimers) - 1
                           /\ \E k \in 1..Len(jsTimers) : jsTimers[k].age = 5000
        /\ Len(jsTimers') <= 1 ]_vars

\* the close of an instance that had been open has just set the one reconnect timer
C1_Witness ==
    /\ jsTimers = <<ReconnectTimer>>
    /\ jetstreamConnection = "CLOSED"
    /\ \E c \in Handles : wire[c] # <<>>

\* C2: at most one upstream instance is live at any time, and a new instance
\* is created only when the instance held by jetstreamConnection is CLOSED
\* (its close event has been handled).
C2_SingleUpstream ==
    /\ [](LiveCount <= 1)
    /\ [][JsConnectNow => jetstreamConnection = "CLOSED"]_vars

\* a later instance is connecting: an earlier one was open and delivered a message
C2_Witness ==
    /\ jetstreamConnection = "CONNECTING"
    /\ jsTimers = <<>>
    /\ \E c \in Handles : wire[c] # <<>>

\* an upstream message is handled in this step
JsMessageNow == wire' # wire \/ lastCast' # lastCast

Unregistered(c) == clientState[c] = "CLOSED" \/ c \in clientErrored

\* C4: no step writes a frame to a handle whose close or error handler has run.
C4_NoSendAfterUnregister ==
    [][\A c \in Handles : Unregistered(c) => wire'[c] = wire[c]]_vars

\* a broadcast happened after a handle was unregistered and reached another handle
C4_Witness ==
    \E c, d \in Handles :
        /\ c \in lastCast.gone
        /\ Len(wire[d]) > Len(wire[c])
        /\ Len(wire[c]) > 0

\* C5: connectedClients holds exactly the handles that have connected and
\* have had neither a close nor an error event dispatched.
C5_MembershipExact ==
    connectedClients = {c \in Handles : clientState[c] # "NONE" /\ ~Unregistered(c)}

\* one handle removed by its error event before its close event, another still registered
C5_Witness ==
    \E c, d \in Handles :
        /\ c \in clientErrored
        /\ clientState[c] = "CLOSING"
        /\ d \in connectedClients
        /\ clientState[d] = "CLOSING"

\* C6: a broadcast writes nothing to a handle that is not OPEN and leaves
\* connectedClients as it was.
C6_BroadcastSkipsNotOpen ==
    [][JsMessageNow =>
          /\ \A c \in Handles : clientState[c] # "OPEN" => wire'[c] = wire[c]
          /\ connectedClients' = connectedClients]_vars

\* a broadcast found a registered handle that was not OPEN, and skipped it
C6_Witness ==
    \E c \in Handles :
        /\ c \in lastCast.skipped
        /\ c \in connectedClients
        /\ wire[c] = <<>>
        /\ \E d \in Handles : wire[d] # <<>>

\* C7: a GET /health is answered with the health document computed from the
\* state at the time of the request.
C7_HealthAnswered ==
    [][(httpResponse' # httpResponse /\ httpResponse'.path = "/health")
          => httpResponse'.body = HealthJson]_vars

\* C8: whenever no upstream instance is live a new one is eventually created,
\* and every pending reconnect timer was set to 5000 ms.
C8_AlwaysRetries ==
    /\ [](\A k \in 1..Len(jsTimers) : jsTimers[k].remaining + jsTimers[k].age = 5000)
    /\ (LiveCount = 0) ~> (LiveCount > 0)

\* no instance is live and the retry is due: its timer has run 5000 ms
C8_Witness ==
    /\ LiveCount = 0
    /\ connectedClients # {}
    /\ Len(jsTimers) = 1
    /\ jsTimers[1].remaining = 0
    /\ jsTimers[1].age = 5000

(***************************************************************************)
(* Properties of the downstream connection manager.                        *)
(***************************************************************************)
\* the reconnect timers that have just been set
ClearStale(timers) ==
    LET keep == {t \in BagToSet(timers) : t.remaining = t.delay}
    IN  [t \in keep |-> CopiesIn(t, timers)]

FreshTimers(timers) ==
    BagCardinality(ClearStale(timers))

\* scheduleReconnect sets a timer in this step
ReconnectScheduledNow ==
    \/ FreshTimers(reconnectTimers') > FreshTimers(reconnectTimers)
    \/ BagCardinality(reconnectTimers') > BagCardinality(reconnectTimers)

\* new WebSocket(websocketUrl) succeeds in this step
WsCreatedNow ==
    \/ ws # "CONNECTING" /\ ws' = "CONNECTING"
    \/ Len(wsDetached') > Len(wsDetached)

\* C9: once the effect cleanup has run, no step schedules a reconnect timer
\* and no step creates a WebSocket.
C9_NoReconnectAfterTeardown ==
    [][~mounted => ~ReconnectScheduledNow /\ ~WsCreatedNow]_vars

\* after the teardown the close event of the socket is still to come and a
\* reconnect timer that was pending at the teardown is due
C9_Witness ==
    /\ ~mounted
    /\ ws = "CLOSING"
    /\ \E t \in BagToSet(reconnectTimers) : t.remaining = 0

\* C10: once 50 reconnect attempts have been made without an open in between,
\* all of them have failed (no socket is left alive) and reconnection is still
\* wanted, no further attempt is scheduled: no reconnect timer is pending.
C10_NoAttemptBeyondBudget ==
    (/\ shouldReconnect
     /\ reconnectAttempts >= maxReconnectAttempts
     /\ ~Live(ws)
     /\ wsDetached = <<>>)
        => reconnectTimers = EmptyBag

\* C11: in every reachable state of the connection manager reconnectAttempts
\* is between 0 and 50 inclusive.
C11_AttemptsWithinBudget ==
    reconnectAttempts \in 0..maxReconnectAttempts

\* C12: at any time at most one heartbeat interval and at most one staleness
\* check interval are active.
C12_OneTimerSet ==
    /\ BagCardinality(heartbeatIntervals) <= 1
    /\ BagCardinality(connectionCheckIntervals) <= 1

\* C13: after the effect cleanup has run no timer is pending: no heartbeat
\* interval, no staleness check interval and no reconnect timeout.
C13_NoTimersAfterTeardown ==
    ~mounted => /\ heartbeatIntervals = EmptyBag
                /\ connectionCheckIntervals = EmptyBag
                /\ reconnectTimers = EmptyBag

\* C14: a socket that is OPEN and has received no message for more than
\* connectionTimeout is closed by the client at the next tick of the staleness
\* check, at most IntervalPeriod later: while ws is OPEN the time since the
\* last message never exceeds connectionTimeout + IntervalPeriod.
C14_StaleClosedWithinTick ==
    ws = "OPEN" => lastMessageAge <= connectionTimeout + IntervalPeriod

\* a close event of a socket is handled in this step
WsClosedNow ==
    \/ ws # "CLOSED" /\ ws' = "CLOSED"
    \/ Len(wsDetached') < Len(wsDetached)

\* min(2000 + n*1000, 10000)
BackoffAfter(n) ==
    IF 2000 + n * 1000 < 10000 THEN 2000 + n * 1000 ELSE 10000

\* the close handled in this step sets a reconnect timer of the delay that
\* belongs to n attempts
ClosedSchedules(n) ==
    /\ BagCardinality(reconnectTimers') = BagCardinality(reconnectTimers) + 1
    /\ \E t \in BagToSet(reconnectTimers') :
           t.remaining = BackoffAfter(n) /\ t.delay = BackoffAfter(n) /\ t.held

\* a reconnect timer fires in this step and its callback counts an attempt
AttemptCountedNow == reconnectAttempts' = reconnectAttempts + 1

\* the timer that fired was set, with the delay that belongs to n attempts,
\* when the counter was n
FiredWasSetAt(n) ==
    \E t \in BagToSet(reconnectTimers) :
        /\ t.remaining = 0
        /\ CopiesIn(t, reconnectTimers') < CopiesIn(t, reconnectTimers)
        /\ t.delay = BackoffAfter(n)

\* the first two parts of C15: the timer a close sets, and the range of delays
C15_DelayOnClose ==
    [][/\ (WsClosedNow /\ shouldReconnect /\ reconnectAttempts < 50)
            => ClosedSchedules(reconnectAttempts)
       /\ \A t \in BagToSet(reconnectTimers') : t.delay \in 2000..10000]_vars

\* C15: a close with shouldReconnect true and reconnectAttempts = n < 50 sets
\* a reconnect timer of min(2000 + n*1000, 10000) ms, every delay is between
\* 2000 and 10000 ms, and when the timer fires reconnectAttempts becomes n + 1.
C15_BackoffThenIncrement ==
    [][/\ (WsClosedNow /\ shouldReconnect /\ reconnectAttempts < 50)
            => ClosedSchedules(reconnectAttempts)
       /\ \A t \in BagToSet(reconnectTimers') : t.delay \in 2000..10000
       /\ AttemptCountedNow => FiredWasSetAt(reconnectAttempts' - 1)]_vars

\* the open event of a socket is handled in this step
WsOpenedNow ==
    \/ ws = "CONNECTING" /\ ws' = "OPEN"
    \/ /\ Len(wsDetached') = Len(wsDetached)
       /\ \E k \in 1..Len(wsDetached) :
              wsDetached[k] = "CONNECTING" /\ wsDetached'[k] = "OPEN"

\* C16: every open event of a socket of the manager resets reconnectAttempts
\* to 0, whatever its value was.
C16_OpenResetsAttempts ==
    [][WsOpenedNow => reconnectAttempts' = 0]_vars

\* the socket has opened and the counter is 0 while a reconnect timer of a
\* longer delay, set when the counter was above 0, is still pending
C16_Witness ==
    /\ ws = "OPEN"
    /\ reconnectAttempts = 0
    /\ \E t \in BagToSet(reconnectTimers) : t.delay > baseReconnectDelay

\* the heartbeat callback runs in this step and its ws.send('ping') throws
PingFailsNow == \E t \in IntervalValues : HeartbeatTick(t, TRUE)

\* C17: when the ping of the heartbeat fails, the same step calls ws.close()
\* (the socket is CLOSING) and sets a reconnect timer.
C17_PingFailureClosesAndReschedules ==
    [][PingFailsNow => ws' = "CLOSING" /\ ReconnectScheduledNow]_vars

\* the first heartbeat of the first connection has failed: the socket is
\* closing, the reconnect timer has just been set and the staleness check of
\* the same instant has not run yet
C17_Witness ==
    /\ mounted
    /\ ws = "CLOSING"
    /\ wsDetached = <<>>
    /\ reconnectAttempts = 0
    /\ reconnectTimers = SetToBag({NewReconnectTimer(0)})
    /\ heartbeatIntervals = SetToBag({NewInterval})
    /\ connectionCheckIntervals = SetToBag({[NewInterval EXCEPT !.remaining = 0]})
    /\ lastMessageAge = IntervalPeriod

(***************************************************************************)
(* Properties of the event decoding.                                       *)
(***************************************************************************)
\* a socket receives the frame in this step
ReceivedNow(frame) ==
    \E i \in Sockets, rawWall \in Walls, discards \in BOOLEAN :
        WsMessage(i, frame, rawWall, discards)

MalformedFrames ==
    {[binary |-> FALSE, data |-> TextTruncated], [binary |-> TRUE, data |-> TextLinked]}

\* C18: a frame whose payload does not parse is swallowed: the handler lets
\* no exception escape, no message is created, and the sockets, the timers
\* and the reconnect state are left as they were.
C18_MalformedSwallowed ==
    [][(\E frame \in MalformedFrames : ReceivedNow(frame))
          => /\ handlerError' = "none"
             /\ messageObjects' = messageObjects
             /\ UNCHANGED <<ws, wsDetached, reconnectTimers, heartbeatIntervals,
                            connectionCheckIntervals, reconnectAttempts,
                            shouldReconnect>>]_vars

\* C19: every frame a socket receives, whatever it carries, sets
\* lastMessageTime to the time of its arrival.
C19_EveryFrameStampsTime ==
    [][(\E frame \in Frames : ReceivedNow(frame)) => lastMessageAge' = 0]_vars

\* a frame that does not parse has arrived 5000 ms after the socket opened,
\* with no message before it, and the time of the last message is its arrival
C19_Witness ==
    /\ ws = "OPEN"
    /\ handlerError = "SyntaxError"
    /\ messageObjects = <<>>
    /\ lastMessageAge = 0
    /\ heartbeatIntervals = SetToBag({[NewInterval EXCEPT !.remaining = 0]})

LinkedFrame == [binary |-> FALSE, data |-> TextLinked]

\* the message objects pushed in this step
Pushed == {messageObjects'[k] : k \in (Len(messageObjects) + 1)..Len(messageObjects')}

\* C20 as stated: every event made from a payload with text "hi", did "abc"
\* and rkey "xyz" has the permalink https://bsky.app/profile/abc/post/xyz.
C20_PermalinkAlways ==
    [][ReceivedNow(LinkedFrame)
          => \A m \in Pushed :
                 m.blueSkyUrl = Str("https://bsky.app/profile/abc/post/xyz")]_vars

\* C20, amended: an event made from that payload has the permalink
\* https://bsky.app/profile/abc/post/xyz if it is a special message, and no
\* permalink if it is placed on one of the four walls.
C20_PermalinkOfSpecial ==
    [][ReceivedNow(LinkedFrame)
          => \A m \in Pushed :
                 m.blueSkyUrl = IF m.special
                                THEN Str("https://bsky.app/profile/abc/post/xyz")
                                ELSE Undefined]_vars

\* a special message and a wall message have been made from the payload
C20_Witness ==
    /\ \E k \in 1..Len(messageObjects) :
           /\ messageObjects[k].text = "hi"
           /\ messageObjects[k].special
           /\ messageObjects[k].blueSkyUrl = Str("https://bsky.app/profile/abc/post/xyz")
    /\ \E k \in 1..Len(messageObjects) :
           /\ messageObjects[k].text = "hi"
           /\ ~messageObjects[k].special
           /\ messageObjects[k].blueSkyUrl = Undefined

\* the frames whose payload has no non-empty text at commit.record.text
NoTextFrames ==
    [binary : {FALSE}, data : {TextEmpty, TextNull, TextNoRecord, TextEmptyText}]

\* the frames whose payload has a text and lacks did or rkey
UnlinkedFrames == [binary : {FALSE}, data : {TextPlain, TextNoRkey}]

\* the second and third part of C21: an event has a permalink only if its
\* payload has both did and rkey
C21_PermalinkNeedsBoth ==
    [][\A frame \in Frames \ {LinkedFrame} :
           ReceivedNow(frame) => \A m \in Pushed : m.blueSkyUrl = Undefined]_vars

\* C21: a payload without a non-empty text at commit.record.text creates no
\* event and raises no error; a payload with a text that lacks did or rkey
\* creates events without a permalink; so an event has a permalink only if
\* its payload has both did and rkey.
C21_NoTextNoEventNoError ==
    [][/\ \A frame \in NoTextFrames :
              ReceivedNow(frame) => handlerError' = "none" /\ Pushed = {}
       /\ \A frame \in UnlinkedFrames :
              ReceivedNow(frame) => \A m \in Pushed : m.blueSkyUrl = Undefined
       /\ \A frame \in Frames \ {LinkedFrame} :
              ReceivedNow(frame) => \A m \in Pushed : m.blueSkyUrl = Undefined]_vars

(***************************************************************************)
(* Isolation of the downstream handles of the relay.                       *)
(***************************************************************************)
\* the handles for which this step is a connection, a close or an error
Touched ==
    {c \in Handles : \/ clientState'[c] # clientState[c]
                     \/ (c \in clientErrored') # (c \in clientErrored)}

\* C22: a downstream client that connects, closes or errors (a client that
\* has used up its reconnect budget is one that closed and never connects
\* again) changes nothing for the other clients, neither their membership in
\* connectedClients nor the payloads written to them, and nothing in the
\* upstream connection's state.
C22_ClientEventsAreLocal ==
    [][Touched # {}
          => /\ \A d \in Handles \ Touched :
                    /\ (d \in connectedClients') = (d \in connectedClients)
                    /\ wire'[d] = wire[d]
             /\ UNCHANGED <<jetstreamConnection, jsDetached, jsTimers>>]_vars

\* one handle has closed while the other one, which has been sent a frame,
\* is still registered and the upstream connection is open
C22_Witness ==
    /\ jetstreamConnection = "OPEN"
    /\ \E c, d \in Handles :
           /\ clientState[c] = "CLOSED"
           /\ clientState[d] = "OPEN"
           /\ d \in connectedClients
           /\ wire[d] # <<>>

\* C23: a ping text frame sent by a downstream client has no effect on the
\* relay: nothing is written to any handle (no reply, no broadcast), and
\* connectedClients and the upstream connection are unchanged.
C23_PingHasNoEffect ==
    [][(\E c \in Handles : ClientMessage(c, "ping"))
          => UNCHANGED <<wire, connectedClients, jetstreamConnection, jsDetached,
                         jsTimers>>]_vars

\* a ping has arrived while two clients were registered, one of them with
\* frames written to it, and the upstream connection was open
C23_Witness ==
    /\ inbound = "ping"
    /\ jetstreamConnection = "OPEN"
    /\ Cardinality(connectedClients) = 2
    /\ \E d \in Handles : wire[d] # <<>>

(***************************************************************************)
(* The error events of the two connections.                                *)
(***************************************************************************)
\* the error event of an upstream instance is dispatched in this step
JsErrorNow == \E i \in UpInstances : JsError(i)

\* the error event of a socket of the viewer is dispatched in this step
WsErrorNow == \E i \in Sockets : WsError(i)

\* C24: an error event on the upstream connection of the relay or on the
\* downstream connection of the viewer triggers no recovery action: no
\* reconnect timer is set or cleared, no connection is created and the
\* state the program keeps about its connection (attempt count, reconnect
\* flag, intervals) is unchanged; the timers come from the close events.
C24_ErrorTakesNoAction ==
    [][/\ JsErrorNow
             => /\ UNCHANGED jsTimers
                /\ Len(jsDetached') = Len(jsDetached)
                /\ jetstreamConnection' # "CONNECTING" \/ UNCHANGED jetstreamConnection
       /\ WsErrorNow
             => /\ UNCHANGED <<reconnectTimers, reconnectAttempts, shouldReconnect,
                               heartbeatIntervals, connectionCheckIntervals>>
                /\ Len(wsDetached') = Len(wsDetached)
                /\ ws' # "CONNECTING" \/ UNCHANGED ws]_vars

\* both connections have had an error event and wait for their close event,
\* no reconnect being scheduled on either side
C24_Witness ==
    /\ jetstreamConnection = "CLOSING"
    /\ jsTimers = <<>>
    /\ ws = "CLOSING"
    /\ reconnectTimers = EmptyBag
    /\ shouldReconnect
    /\ reconnectAttempts > 0

(***************************************************************************)
(* Progress of the connection manager.                                     *)
(***************************************************************************)
\* the socket ws refers to has closed and its close has scheduled a reconnect
ClosedAndScheduled ==
    ws = "CLOSED" /\ shouldReconnect /\ reconnectTimers # EmptyBag

\* C25: while shouldReconnect is true and fewer than 50 consecutive
\* reconnects have failed, every close of the downstream connection sets a
\* reconnect timer, and the closed socket is eventually replaced by a fresh
\* WebSocket object in state CONNECTING, unless the component is torn down
\* first.
C25_CloseLeadsToAttempt ==
    /\ [][(WsClosedNow /\ shouldReconnect /\ reconnectAttempts < 50)
             => reconnectTimers' # EmptyBag]_vars
    /\ ClosedAndScheduled ~> (ws = "CONNECTING" \/ ~shouldReconnect)

\* the 50th attempt, made on a fresh socket after the close that followed
\* the 49th
C25_Witness ==
    /\ ws = "CONNECTING"
    /\ wsDetached = <<>>
    /\ reconnectAttempts = 50
    /\ shouldReconnect

(***************************************************************************)
(* Properties of the game.                                                 *)
(***************************************************************************)
\* C26: when the Arwing has crashed into 3 posts, so that its health has
\* gone from 3 to 0, the destroyed state is set and the destruction
\* sequence that ends in the navigation to the post has been started.
C26_ThreeCrashesEndGame ==
    health = 0
        => /\ isArwingDestroyed
           /\ destructionTimers # {} \/ navigatedTo # Null

\* C27: a double-tap of A or D while no roll is in progress is followed by
\* the start of a barrel roll, whatever the order of key events, flag-reset
\* timers and frame updates.
C27_DoubleTapStartsRoll ==
    \A key \in Keys :
        (barrelRoll[key] /\ ~isBarrelRolling) ~> isBarrelRolling

(***************************************************************************)
(* The client-count log line of the relay.                                 *)
(***************************************************************************)
\* C28: every registration of a downstream handle and every removal of
\* one, by its close or by its error, logs the client count, with the size
\* of connectedClients after the change.
C28_CountLoggedOnEveryChange ==
    [][connectedClients' # connectedClients
          => totalClients' = Cardinality(connectedClients')]_vars

\* the part of C28 that concerns the connection and the close events
C28_CountLoggedOnConnectAndClose ==
    [][(\E c \in Handles : Connection(c) \/ ClientClose(c))
          => totalClients' = Cardinality(connectedClients')]_vars

(***************************************************************************)
(* The discard of createMessage.                                           *)
(***************************************************************************)
\* C29: a message for which the discardFraction draw says discard is
\* dropped whatever its wall type: no message object is made for a wall
\* message (0..3) and none for a special message (wall = -1).
C29_DiscardRegardlessOfWall ==
    [][(\E i \in Sockets, frame \in Frames, rawWall \in Walls :
            WsMessage(i, frame, rawWall, TRUE))
          => messageObjects' = messageObjects]_vars

\* the part of C29 that concerns the wall messages
C29_DiscardOnWalls ==
    [][(\E i \in Sockets, frame \in Frames, rawWall \in 0..3 :
            WsMessage(i, frame, rawWall, TRUE))
          => messageObjects' = messageObjects]_vars

(***************************************************************************)
(* The connecting message.                                                 *)
(***************************************************************************)
\* a connection event is handled in this step
ConnectionEventNow ==
    ws' # ws \/ wsDetached' # wsDetached \/ reconnectAttempts' # reconnectAttempts

\* updateScene runs in this step
FrameNow == \E fates \in [1..Len(messageObjects) -> Fates] : FrameUpdate(fates)

\* C30: the life of the connecting message depends on the time since it
\* was created and not on the connection: no connection event changes it;
\* its alpha goes down only after 2000 ms; it is removed, and its texture
\* released, once, by the first frame at or after 3000 ms, whatever the
\* state of the socket; and it is never made again.
C30_PlaceholderFollowsTimeOnly ==
    [][/\ ConnectionEventNow => UNCHANGED placeholderVars
       /\ (connectingMessage # Null /\ connectingMessage' # connectingMessage)
             => sinceCreated > FadeStart
       /\ (connectingMessage # Null /\ connectingMessage' = Null)
             => sinceCreated >= FadeEnd /\ placeholderReleases' = 1
       /\ (FrameNow /\ connectingMessage # Null /\ sinceCreated >= FadeEnd)
             => connectingMessage' = Null
       /\ connectingMessage = Null => UNCHANGED placeholderVars]_vars

\* the connecting message has been removed while the viewer had no open
\* connection and was between two reconnect attempts
C30_Witness ==
    /\ connectingMessage = Null
    /\ placeholderReleases = 1
    /\ ws = "CLOSED"
    /\ reconnectAttempts > 0

(***************************************************************************)
(* Late joiners of the relay.                                              *)
(***************************************************************************)
\* C31: a handle is written a payload only in the step in which the relay
\* receives that payload from upstream, and only if the handle is registered
\* and OPEN in that step; its registration writes nothing to it.  So a
\* payload that arrived before a handle registered, or while it was not
\* OPEN, never reaches it: nothing is buffered or replayed.
C31_NoReplay ==
    /\ [](\A c \in Handles : clientState[c] = "NONE" => wire[c] = <<>>)
    /\ [][\A c \in Handles :
             /\ Connection(c) => wire'[c] = <<>>
             /\ wire'[c] # wire[c]
                   => /\ c \in connectedClients
                      /\ clientState[c] = "OPEN"
                      /\ \E i \in UpInstances, data \in Payloads :
                             /\ JsMessage(i, data)
                             /\ wire'[c] = Append(wire[c], data)]_vars

\* a handle that registered after two payloads had been forwarded to the
\* other one is registered and OPEN and has been written nothing
C31_Witness ==
    \E c, d \in Handles :
        /\ clientState[c] = "OPEN"
        /\ c \in connectedClients
        /\ wire[c] = <<>>
        /\ clientState[d] = "OPEN"
        /\ Len(wire[d]) = 2

(***************************************************************************)
(* One connection, one pending reconnect.                                  *)
(***************************************************************************)
\* the sockets of the manager that are not CLOSED
LiveSockets ==
    (IF Live(ws) THEN 1 ELSE 0)
        + Cardinality({k \in 1..Len(wsDetached) : Live(wsDetached[k])})

\* C32: at any time the connection manager has at most one WebSocket that
\* is not CLOSED and at most one pending reconnect timeout.
C32_OneSocketOneTimeout ==
    /\ LiveSockets <= 1
    /\ BagCardinality(reconnectTimers) <= 1

\* C33: whenever the socket ws refers to is OPEN, a heartbeat interval and
\* a staleness check interval are active.
C33_OpenSocketIsWatched ==
    ws = "OPEN" => /\ heartbeatIntervals # EmptyBag
                   /\ connectionCheckIntervals # EmptyBag

(***************************************************************************)
(* A silent relay.                                                         *)
(***************************************************************************)
\* the staleness check runs in this step
CheckNow == \E t \in IntervalValues : CheckTick(t)

\* the socket ws refers to is OPEN and no frame has arrived for more than
\* connectionTimeout
Silent == ws = "OPEN" /\ lastMessageAge > connectionTimeout

\* C34: when nothing has arrived for more than 10000 ms on the OPEN socket
\* of a viewer, a staleness check is still to come for it, the check that
\* runs next calls ws.close(), and the close of the socket sets the
\* reconnect timer.
C34_SilenceForcesReconnect ==
    /\ [](Silent => connectionCheckIntervals # EmptyBag)
    /\ [][/\ (CheckNow /\ Silent) => ws' = "CLOSING"
          /\ (WsClosedNow /\ shouldReconnect /\ reconnectAttempts < 50)
                => ReconnectScheduledNow]_vars

\* the part of C34 that concerns the step of the staleness check
C34_CheckClosesSilentSocket ==
    [][/\ (CheckNow /\ Silent) => ws' = "CLOSING"
       /\ (WsClosedNow /\ shouldReconnect /\ reconnectAttempts < 50)
             => ReconnectScheduledNow]_vars

\* the manager does not keep referring to a silent socket
C34_SilentSocketReplaced ==
    Silent ~> (ws # "OPEN" \/ lastMessageAge <= connectionTimeout)

(***************************************************************************)
(* The downstream registrations across upstream reconnects.                *)
(***************************************************************************)
\* an event of the upstream connection is handled in this step: open, the
\* start of a close, error, close, or the reconnect timer
UpstreamEventNow ==
    \/ \E i \in UpInstances : JsOpen(i) \/ JsBeginClose(i) \/ JsError(i) \/ JsClose(i)
    \/ \E k \in 1..MaxJsTimers : JsTimerFire(k)

\* C35: the open, close, error and reconnect events of the upstream
\* connection leave connectedClients as it was and change the readyState of
\* no downstream handle.
C35_UpstreamEventsKeepClients ==
    [][UpstreamEventNow => UNCHANGED <<connectedClients, clientState>>]_vars

\* both handles are registered and OPEN, one of them was sent a frame by an
\* upstream instance that has closed since, and the next instance is
\* connecting
C35_Witness ==
    /\ jetstreamConnection = "CONNECTING"
    /\ jsDetached = <<>>
    /\ jsTimers = <<>>
    /\ connectedClients = Handles
    /\ \A c \in Handles : clientState[c] = "OPEN"
    /\ \E c \in Handles : wire[c] # <<>>

(***************************************************************************)
(* Unregistering a downstream handle twice.                                *)
(***************************************************************************)
\* a handle has connected, so a client count has been reported
Reported == \E c \in Handles : clientState[c] # "NONE"

\* C36: the error event and the close event of a handle each leave
\* connectedClients without that handle and otherwise as it was, so the
\* second of the two removes nothing; and the client count the relay last
\* reported is never below the number of registered handles, nor below 0.
C36_UnregisterIdempotent ==
    /\ [](~Reported => connectedClients = {})
    /\ [](Reported => /\ totalClients >= Cardinality(connectedClients)
                      /\ totalClients >= 0)
    /\ [][\A c \in Handles :
             (ClientError(c) \/ ClientClose(c))
                 => /\ connectedClients' = connectedClients \ {c}
                    /\ c \notin connectedClients => UNCHANGED connectedClients]_vars

\* a handle has been removed by its error event and its close event is
\* still to come, the other handle is registered, and the count last
\* reported is above the number of registered handles
C36_Witness ==
    \E c, d \in Handles :
        /\ c \in clientErrored
        /\ clientState[c] = "CLOSING"
        /\ connectedClients = {d}
        /\ totalClients = 2

(***************************************************************************)
(* The health of the Arwing.                                               *)
(***************************************************************************)
\* C37: the health of the Arwing is always within 0..maxHealth.
C37_HealthWithinRange ==
    health \in 0..maxHealth

(***************************************************************************)
(* The life of a message object.                                           *)
(***************************************************************************)
MessageIds == 1..MaxCreated

\* message id is in messageObjectsRef.current
InMessages(id) == \E k \in DOMAIN messageIds : messageIds[k] = id

\* message id is in growingMessagesRef.current
InGrowing(id) == \E k \in DOMAIN growingMessages : growingMessages[k].id = id

\* C38: every message object leaves messageObjectsRef at most once and has
\* its texture released at most once; a message that has left is not in
\* messageObjectsRef again, so no later frame processes it; and the texture
\* is released either in the step in which the message leaves (laser hit,
\* collision, z > 10) or at the end of its grow animation.
C38_RemovedAndReleasedOnce ==
    /\ [](\A id \in MessageIds :
             /\ removals[id] <= 1
             /\ textureReleases[id] <= 1
             /\ Count(messageIds, id) <= 1
             /\ InMessages(id) => /\ id <= created
                                  /\ removals[id] = 0
                                  /\ textureReleases[id] = 0
                                  /\ ~InGrowing(id)
             /\ InGrowing(id) => removals[id] = 1 /\ textureReleases[id] = 0
             /\ textureReleases[id] = 1 => removals[id] = 1)
    /\ [][\A id \in MessageIds :
             textureReleases'[id] > textureReleases[id]
                 => \/ InMessages(id) /\ removals'[id] = 1 /\ ~InGrowing(id)'
                    \/ /\ \E k \in DOMAIN growingMessages :
                              /\ growingMessages[k].id = id
                              /\ growingMessages[k].elapsed > GrowDuration
                       /\ ~InGrowing(id)']_vars

\* four messages have been created and each has left and been released
\* once; three of them were collisions, the last of which destroyed the
\* Arwing, so that its message was released at the end of its grow animation
C38_Witness ==
    /\ created = MaxCreated
    /\ health = 0
    /\ messageIds = <<>>
    /\ growingMessages = <<>>
    /\ \A id \in MessageIds : removals[id] = 1 /\ textureReleases[id] = 1

C40_HeldKeyAndThirdPress ==
    [][\A key \in Keys :
          /\ (barrelRoll'[key] /\ ~barrelRoll[key])
                => /\ released[key] /\ ~released'[key]
                   /\ lastPress'[key] = NoPress
          /\ (KeyDown(key) /\ ~released[key])
                => UNCHANGED <<barrelRoll, lastPress, released>>
          /\ (KeyDown(key) /\ released[key] /\ lastPress[key] = NoPress)
                => /\ barrelRoll' = barrelRoll
                   /\ lastPress'[key] = 0]_vars

\* the third press of a key: the roll its double-tap started began at most
\* 200 ms ago, the flag has been reset since, and the press has just been
\* recorded without setting the flag
C40_Witness ==
    \E key \in Keys :
        /\ isBarrelRolling
        /\ barrelRollDirection = RollDirection(key)
        /\ barrelRollTime <= 2 * FlagResetDelay
        /\ \A other \in Keys : ~barrelRoll[other]
        /\ ~released[key]
        /\ lastPress[key] = 0
        /\ \A other \in Keys \ {key} : lastPress[other] = NoPress

====
